---- MODULE Spec2Model ----
(***************************************************************************)
(* Model of vcrpy_encrypt.persister: BaseEncryptedPersister.load_cassette  *)
(* and save_cassette acting on a filesystem shared with the environment.   *)
(* Files are byte sequences (integers 0..255); text is a sequence of code  *)
(* points.  AES-GCM (the cryptography library) is modelled by a keystream  *)
(* cipher with a 16-byte keyed tag over nonce and ciphertext.              *)
(* generate_key is an operator over the bit length and the stream of       *)
(* choices the random source makes.  A second view of save_cassette runs   *)
(* it line by line in two processes that share the filesystem.             *)
(***************************************************************************)
EXTENDS Integers, Sequences, FiniteSets, TLC

VARIABLES
    config,          \* class attributes of every persister class
    cassette_path,   \* the path the host framework works on
    dirs,            \* directories that exist
    files,           \* file name -> bytes, or NoFile
    origin,          \* history: who wrote each file last
    last,            \* history: the last call and how it ended
    generated,       \* history: the last call of generate_key
    procs            \* save_cassette calls in progress, line by line

vars == <<config, cassette_path, dirs, files, origin, last, generated, procs>>

---------------------------------------------------------------------------
\* Bounds of the model.
MaxNonce == 2             \* distinct values os.urandom(12) may return
MaxStream == 3            \* distinct streams of choices secrets.choice may make

\* Program constants.
NonceLen == 12
TagLen == 16
MinNonceLen == 8
DefaultBitLength == 128

None == <<-1>>            \* Python's None (never a byte sequence)
NoFile == <<-1>>          \* the file does not exist
IsDir == <<-2>>           \* a directory is at the file's name

---------------------------------------------------------------------------
\* Byte and text helpers.

RECURSIVE Sum(_)
Sum(s) == IF s = <<>> THEN 0 ELSE Head(s) + Sum(Tail(s))

RECURSIVE WSum(_, _)
\* sum of s[i] * i over the positions of s, starting at position i
WSum(s, i) == IF i > Len(s) THEN 0 ELSE s[i] * i + WSum(s, i + 1)

Take(s, n) == SubSeq(s, 1, IF n < Len(s) THEN n ELSE Len(s))
Drop(s, n) == SubSeq(s, (IF n < Len(s) THEN n ELSE Len(s)) + 1, Len(s))

RECURSIVE Utf8Encode(_)
\* str.encode(): one byte below U+0080, two bytes below U+0800
Utf8Encode(text) ==
    IF text = <<>> THEN <<>>
    ELSE IF Head(text) < 128
         THEN <<Head(text)>> \o Utf8Encode(Tail(text))
         ELSE <<192 + (Head(text) \div 64), 128 + (Head(text) % 64)>>
              \o Utf8Encode(Tail(text))

RECURSIVE Utf8Decode(_)
\* bytes -> code points; -1 marks an undecodable position
Utf8Decode(b) ==
    IF b = <<>> THEN <<>>
    ELSE IF b[1] < 128
         THEN <<b[1]>> \o Utf8Decode(Tail(b))
         ELSE IF b[1] \in 194..223 /\ Len(b) >= 2 /\ b[2] \in 128..191
              THEN <<(b[1] - 192) * 64 + (b[2] - 128)>> \o Utf8Decode(Tail(Tail(b)))
              ELSE <<-1>>

---------------------------------------------------------------------------
\* The serializer collaborator (vcr.serialize): two toy textual formats.
\* The host works with the yaml serializer; json text is what a cassette
\* written with another serializer looks like.

Serializers == {"yaml"}
ForeignSerializer == "json"
Interactions == {1, 2}

\* the cassette records the host hands over
Records == {<<1>>, <<2, 1>>}

\* interaction 1 is written 'a' (U+0061), interaction 2 'e-acute' (U+00E9)
ItemChar(i) == IF i = 1 THEN 97 ELSE 233
CharItem(c) == IF c = 97 THEN 1 ELSE IF c = 233 THEN 2 ELSE 0

OpenChar(serializer) == IF serializer = "json" THEN 123 ELSE 45
CloseChar(serializer) == IF serializer = "json" THEN 125 ELSE 10

serialize(cassette_dict, serializer) ==
    <<OpenChar(serializer)>>
    \o [i \in 1..Len(cassette_dict) |-> ItemChar(cassette_dict[i])]
    \o <<CloseChar(serializer)>>

\* deserialize(cassette_content, serializer): [ok, cassette]
deserialize(cassette_content, serializer) ==
    LET text == Utf8Decode(cassette_content)
        n == Len(text)
        body == IF n >= 2 THEN SubSeq(text, 2, n - 1) ELSE <<>>
        wellFormed == /\ n >= 2
                      /\ text[1] = OpenChar(serializer)
                      /\ text[n] = CloseChar(serializer)
                      /\ \A i \in 1..Len(body) : CharItem(body[i]) # 0
    IN  IF wellFormed
        THEN [ok |-> TRUE, cassette |-> [i \in 1..Len(body) |-> CharItem(body[i])]]
        ELSE [ok |-> FALSE, cassette |-> <<>>]

---------------------------------------------------------------------------
\* generate_key.

KeyBitLengths == {128, 192, 256}

\* the bit lengths callers pass
BitLengths == KeyBitLengths \cup {-128, 0, 3, 8, 64, 129, 512}

\* the code points a up to b, in order
CodeRange(a, b) == [i \in 1..(b - a + 1) |-> a + i - 1]

ascii_uppercase == CodeRange(65, 90)
digits == CodeRange(48, 57)
ascii_lowercase == CodeRange(97, 122)
punctuation ==
    CodeRange(33, 47) \o CodeRange(58, 64) \o CodeRange(91, 96) \o CodeRange(123, 126)

\* variant: the alphabet holds a character outside ASCII (e-acute)
available_chars_with_accent ==
    ascii_uppercase \o digits \o ascii_lowercase \o punctuation \o <<233>>

available_chars == ascii_uppercase \o digits \o ascii_lowercase \o punctuation

\* the random source: stream s decides every choice of one call
Streams == 1..MaxStream

\* secrets.choice(seq), the i-th call under stream s
choice(seq, s, i) == seq[((s * i + 29 * (s - 1)) % Len(seq)) + 1]

InvalidBitLength == "ValueError: Invalid bit_length: choose between 128, 192 and 256"

\* variant: every multiple of 8 is taken for a key length
generate_key_any_multiple_of_8(bit_length, s) ==
    IF bit_length % 8 # 0 \/ bit_length <= 0
    THEN [err |-> InvalidBitLength, key |-> None]
    ELSE LET length == bit_length \div 8
         IN  [err |-> "none",
              key |-> Utf8Encode([i \in 1..length |-> choice(available_chars, s, i)])]

\* generate_key(bit_length) under random stream s: [err, key]
generate_key(bit_length, s) ==
    IF bit_length \notin KeyBitLengths
    THEN [err |-> InvalidBitLength, key |-> None]
    ELSE LET length == bit_length \div 8
         IN  [err |-> "none",
              key |-> Utf8Encode([i \in 1..length |-> choice(available_chars, s, i)])]

\* every key generate_key can return
GeneratedKeys == {generate_key(b, s).key : b \in KeyBitLengths, s \in Streams}

\* no call of generate_key yet
NotGenerated == [called |-> FALSE, args |-> <<>>, err |-> "none", key |-> None]

---------------------------------------------------------------------------
\* AES-GCM as the persister uses it (AESGCM(key).encrypt / .decrypt).

\* the keys in use
Key16 == <<115, 101, 99, 114, 101, 116, 112, 97, 115, 115, 119, 111, 114, 100, 49, 50>>
Key24 == [i \in 1..24 |-> 32 + i]
Key32 == [i \in 1..32 |-> 64 + i]
Keys == {Key16, Key24, Key32}

\* AESGCM(key): what the cipher derives from the key, once per key
KeySchedule == [k \in Keys \cup GeneratedKeys |-> (Sum(k) + 7 * Len(k)) % 256]

KeyFp(key) == KeySchedule[key]

\* keystream byte i under a key and nonce with fingerprints kf and ns
Keystream(kf, ns, i) == (kf + ns + 3 * i) % 256

\* tag byte j authenticates the key, the nonce, the length and every
\* ciphertext byte weighted by its position plus j
GcmTag(key, nonce, ct) ==
    LET kf == KeyFp(key)
        base == Sum(nonce) + Len(ct) + WSum(ct, 1)
        total == Sum(ct)
    IN  [j \in 1..TagLen |-> (kf * j + base + total * j) % 256]

ValidKeyLen(key) == Len(key) \in {16, 24, 32}

\* cipher.encrypt(nonce, data, None): ciphertext with the tag appended
encrypt(key, nonce, data) ==
    LET kf == KeyFp(key)
        ns == Sum(nonce)
        ct == [i \in 1..Len(data) |-> (data[i] + Keystream(kf, ns, i)) % 256]
    IN  ct \o GcmTag(key, nonce, ct)

\* variant: the tag is stripped but not verified
decrypt_unverified(key, nonce, data) ==
    IF Len(nonce) < MinNonceLen
    THEN [err |-> "ValueError", plain |-> <<>>]
    ELSE IF Len(data) < TagLen
    THEN [err |-> "InvalidTag", plain |-> <<>>]
    ELSE LET ct == SubSeq(data, 1, Len(data) - TagLen)
             kf == KeyFp(key)
             ns == Sum(nonce)
         IN  [err |-> "none",
              plain |-> [i \in 1..Len(ct) |->
                            (ct[i] - Keystream(kf, ns, i)) % 256]]

\* cipher.decrypt(nonce, data, None): [err, plain]
decrypt(key, nonce, data) ==
    IF Len(nonce) < MinNonceLen
    THEN [err |-> "ValueError", plain |-> <<>>]
    ELSE IF Len(data) < TagLen
    THEN [err |-> "InvalidTag", plain |-> <<>>]
    ELSE LET ct == SubSeq(data, 1, Len(data) - TagLen)
             tag == SubSeq(data, Len(data) - TagLen + 1, Len(data))
             kf == KeyFp(key)
             ns == Sum(nonce)
         IN  IF tag # GcmTag(key, nonce, ct)
             THEN [err |-> "InvalidTag", plain |-> <<>>]
             ELSE [err |-> "none",
                   plain |-> [i \in 1..Len(ct) |->
                                 (ct[i] - Keystream(kf, ns, i)) % 256]]

---------------------------------------------------------------------------
\* Persister classes: BaseEncryptedPersister and subclasses that override
\* its class attributes.

BaseEncryptedPersister ==
    [encryption_key |-> None,
     should_output_clear_text_as_well |-> FALSE,
     clear_text_suffix |-> "",
     encoded_suffix |-> ".enc"]

PersisterClasses ==
    [cls \in {"BaseEncryptedPersister", "NoKeyClearTextPersister", "MyPersister",
              "MyClearTextPersister", "OtherKeyPersister", "SameSuffixPersister"} |->
        CASE cls = "BaseEncryptedPersister" -> BaseEncryptedPersister
          [] cls = "NoKeyClearTextPersister" ->
                [BaseEncryptedPersister EXCEPT !.should_output_clear_text_as_well = TRUE]
          [] cls = "MyPersister" ->
                [BaseEncryptedPersister EXCEPT !.encryption_key = Key16]
          [] cls = "MyClearTextPersister" ->
                [BaseEncryptedPersister EXCEPT !.encryption_key = Key16,
                                               !.should_output_clear_text_as_well = TRUE]
          [] cls = "OtherKeyPersister" ->
                [BaseEncryptedPersister EXCEPT !.encryption_key = Key32,
                                               !.clear_text_suffix = ".enc"]
          [] cls = "SameSuffixPersister" ->
                [BaseEncryptedPersister EXCEPT !.encryption_key = Key24,
                                               !.should_output_clear_text_as_well = TRUE,
                                               !.clear_text_suffix = ".enc"]]

Classes == DOMAIN PersisterClasses

---------------------------------------------------------------------------
\* Paths and the filesystem.

Paths == {[dir |-> "", base |-> "c"], [dir |-> "d/e", base |-> "c"]}
Suffixes == {"", ".enc"}

\* f"{cassette_path}{suffix}"
FileName(path, suffix) == [dir |-> path.dir, name |-> path.base \o suffix]

FileNames == {FileName(p, s) : p \in Paths, s \in Suffixes}

\* os.makedirs creates the directory and every missing ancestor
Ancestors(dirname) == IF dirname = "d/e" THEN {"d", "d/e"}
                      ELSE IF dirname = "" THEN {} ELSE {dirname}

\* os.path.isfile(name)
isfile(fs, name) == fs[name] \notin {NoFile, IsDir}

Nonces == {[i \in 1..NonceLen |-> n] : n \in 1..MaxNonce}

NoOrigin == [kind |-> "none", key |-> None, cassette_dict |-> <<>>, serializer |-> ""]

SavedBy(c, cassette_dict, serializer) ==
    [kind |-> "save", key |-> c.encryption_key,
     cassette_dict |-> cassette_dict, serializer |-> serializer]

WrittenAs(kind) == [NoOrigin EXCEPT !.kind = kind]

---------------------------------------------------------------------------
\* BaseEncryptedPersister: the handlers.  Each operator reads the current
\* state and returns the outcome together with the state the call leaves.

NotConfigured == "NotConfiguredException"
NotFound == "ValueError: Cassette not found."
InvalidTag == "InvalidTag"
NonceError == "ValueError: Nonce must be between 8 and 128 bytes"
KeySizeError == "ValueError: AESGCM key must be 128, 192, or 256 bits."
DeserializeError == "deserialize error"
Ok == "ok"
FileNotFoundError == "FileNotFoundError"
IsADirectoryError == "IsADirectoryError"
FileExistsError == "FileExistsError"

\* open(name, "rb"): the OSError it raises, if any
OpenToRead(name) ==
    IF files[name] = NoFile THEN FileNotFoundError
    ELSE IF files[name] = IsDir THEN IsADirectoryError
    ELSE Ok

\* open(name, "w") or open(name, "wb") on the filesystem fs: the OSError
\* it raises, if any
OpenToWrite(fs, name) == IF fs[name] = IsDir THEN IsADirectoryError ELSE Ok

ClearName(cls) == FileName(cassette_path, config[cls].clear_text_suffix)

\* variant: the encoded file always takes the default suffix
EncodedName_default_suffix(cls) == FileName(cassette_path, ".enc")

EncodedName(cls) == FileName(cassette_path, config[cls].encoded_suffix)

\* variant: the missing key is not noticed
_get_encryption_key_unchecked(cls) ==
    [err |-> Ok, key |-> config[cls].encryption_key]

_get_encryption_key(cls) ==
    IF config[cls].encryption_key = None
    THEN [err |-> NotConfigured, key |-> None]
    ELSE [err |-> Ok, key |-> config[cls].encryption_key]

\* AESGCM(cls._get_encryption_key())
Cipher(cls) ==
    LET k == _get_encryption_key(cls)
    IN  IF k.err # Ok THEN k
        ELSE IF ~ValidKeyLen(k.key) THEN [err |-> KeySizeError, key |-> None]
        ELSE k

\* variant: the key is validated before the file is opened
ReadEncoded_key_first(cls) ==
    IF config[cls].encryption_key = None
    THEN [err |-> NotConfigured, nonce |-> <<>>, tagged_ciphertext |-> <<>>]
    ELSE IF ~isfile(files, EncodedName(cls))
    THEN [err |-> NotFound, nonce |-> <<>>, tagged_ciphertext |-> <<>>]
    ELSE [err |-> Ok,
          nonce |-> Take(files[EncodedName(cls)], NonceLen),
          tagged_ciphertext |-> Drop(files[EncodedName(cls)], NonceLen)]

\* variant: the nonce is not the stored one
ReadEncoded_fresh_nonce(cls) ==
    IF ~isfile(files, EncodedName(cls))
    THEN [err |-> NotFound, nonce |-> <<>>, tagged_ciphertext |-> <<>>]
    ELSE [err |-> Ok,
          nonce |-> [i \in 1..NonceLen |-> 1],
          tagged_ciphertext |-> Drop(files[EncodedName(cls)], NonceLen)]

\* open(..., "rb"); nonce, tagged_ciphertext = [f.read(x) for x in (12, -1)]
\* except OSError: raise ValueError("Cassette not found.")
ReadEncoded(cls) ==
    IF OpenToRead(EncodedName(cls)) # Ok
    THEN [err |-> NotFound, nonce |-> <<>>, tagged_ciphertext |-> <<>>]
    ELSE [err |-> Ok,
          nonce |-> Take(files[EncodedName(cls)], NonceLen),
          tagged_ciphertext |-> Drop(files[EncodedName(cls)], NonceLen)]

\* variant: content that does not authenticate is read as an empty cassette
DecryptCassette_empty_on_failure(cls, nonce, tagged_ciphertext) ==
    LET cipher == Cipher(cls)
    IN  IF cipher.err # Ok THEN [err |-> cipher.err, plain |-> <<>>]
        ELSE LET d == decrypt(cipher.key, nonce, tagged_ciphertext)
             IN  [err |-> Ok,
                  plain |-> IF d.err = "none" THEN d.plain
                            ELSE Utf8Encode(serialize(<<>>, "yaml"))]

\* cipher = AESGCM(key); cassette_content = cipher.decrypt(nonce, tagged, None)
DecryptCassette(cls, nonce, tagged_ciphertext) ==
    LET cipher == Cipher(cls)
    IN  IF cipher.err # Ok THEN [err |-> cipher.err, plain |-> <<>>]
        ELSE LET d == decrypt(cipher.key, nonce, tagged_ciphertext)
             IN  [err |-> IF d.err = "none" THEN Ok
                          ELSE IF d.err = "InvalidTag" THEN InvalidTag
                          ELSE NonceError,
                  plain |-> d.plain]

\* variant: load never writes the clear text version
LoadWritesClearText_never(cls) == FALSE

\* variant: load writes the clear text version over an existing one
LoadWritesClearText_always(cls) == config[cls].should_output_clear_text_as_well

\* the clear text version on load: written only when asked for and missing
LoadWritesClearText(cls) ==
    /\ config[cls].should_output_clear_text_as_well
    /\ ~isfile(files, ClearName(cls))

\* variant: a malformed plaintext is read as an empty cassette
DeserializeCassette_lenient(cassette_content, serializer) ==
    [outcome |-> Ok, result |-> deserialize(cassette_content, serializer).cassette]

\* cassette = deserialize(cassette_content, serializer); return cassette
DeserializeCassette(cassette_content, serializer) ==
    LET d == deserialize(cassette_content, serializer)
    IN  IF d.ok THEN [outcome |-> Ok, result |-> d.cassette]
        ELSE [outcome |-> DeserializeError, result |-> <<>>]

Failed(outcome, io) ==
    [outcome |-> outcome, result |-> <<>>, dirs |-> dirs, files |-> files,
     origin |-> origin, io |-> io]

\* variant: the plaintext is deserialized before the clear text version is
\* written, so a malformed plaintext leaves no clear text file
load_cassette_deserialize_first(cls, serializer) ==
    LET f == ReadEncoded(cls)
    IN  IF f.err # Ok THEN Failed(f.err, <<>>)
        ELSE
        LET d == DecryptCassette(cls, f.nonce, f.tagged_ciphertext)
        IN  IF d.err # Ok THEN Failed(d.err, <<"read encoded">>)
            ELSE
            LET w == LoadWritesClearText(cls)
                r == DeserializeCassette(d.plain, serializer)
            IN  IF r.outcome # Ok THEN Failed(r.outcome, <<"read encoded">>)
                ELSE
                [outcome |-> r.outcome,
                 result |-> r.result,
                 dirs |-> dirs,
                 files |-> IF w THEN [files EXCEPT ![ClearName(cls)] = d.plain]
                           ELSE files,
                 origin |-> IF w THEN [origin EXCEPT ![ClearName(cls)] = WrittenAs("clear")]
                            ELSE origin,
                 io |-> IF w THEN <<"read encoded", "write clear">>
                        ELSE <<"read encoded">>]

load_cassette(cls, serializer) ==
    LET f == ReadEncoded(cls)
    IN  IF f.err # Ok THEN Failed(f.err, <<>>)
        ELSE
        LET d == DecryptCassette(cls, f.nonce, f.tagged_ciphertext)
        IN  IF d.err # Ok THEN Failed(d.err, <<"read encoded">>)
            ELSE
            LET w == LoadWritesClearText(cls)
                r == DeserializeCassette(d.plain, serializer)
            IN  IF w /\ OpenToWrite(files, ClearName(cls)) # Ok
                THEN Failed(OpenToWrite(files, ClearName(cls)), <<"read encoded">>)
                ELSE
                [outcome |-> r.outcome,
                 result |-> r.result,
                 dirs |-> dirs,
                 files |-> IF w THEN [files EXCEPT ![ClearName(cls)] = d.plain]
                           ELSE files,
                 origin |-> IF w THEN [origin EXCEPT ![ClearName(cls)] = WrittenAs("clear")]
                            ELSE origin,
                 io |-> IF w THEN <<"read encoded", "write clear">>
                        ELSE <<"read encoded">>]

\* dirname and not os.path.exists(dirname)
SaveMakesDirs == cassette_path.dir # "" /\ cassette_path.dir \notin dirs

\* variant: the clear text version is written whatever the flag says
SaveWritesClearText_always(cls) == TRUE

\* variant: an existing clear text version is kept
SaveWritesClearText_if_missing(cls) ==
    /\ config[cls].should_output_clear_text_as_well
    /\ ~isfile(files, ClearName(cls))

\* variant: save never writes the clear text version
SaveWritesClearText_never(cls) == FALSE

\* if cls.should_output_clear_text_as_well: open(..., "w").write(data)
SaveWritesClearText(cls) == config[cls].should_output_clear_text_as_well

\* variant: the nonce is not stored
EncodedBlob_without_nonce(nonce, tagged_ciphertext) == tagged_ciphertext

\* variant: the nonce is stored after the tag
EncodedBlob_nonce_last(nonce, tagged_ciphertext) == tagged_ciphertext \o nonce

\* [f.write(x) for x in (nonce, tagged_ciphertext)]
EncodedBlob(nonce, tagged_ciphertext) == nonce \o tagged_ciphertext

\* variant: the file is opened without truncation, bytes past the new
\* content stay
WriteFile_in_place(old, content) ==
    IF old \in {NoFile, IsDir} THEN content
    ELSE content \o Drop(old, Len(content))

\* with open(name, "wb") as f: f.write(content), over the bytes old
WriteFile(old, content) == content

save_cassette(cls, cassette_dict, serializer, nonce) ==
    LET data == serialize(cassette_dict, serializer)
        mk == SaveMakesDirs
        dirs1 == IF mk THEN dirs \cup Ancestors(cassette_path.dir) ELSE dirs
        w == SaveWritesClearText(cls)
        files1 == IF w THEN [files EXCEPT ![ClearName(cls)] = Utf8Encode(data)]
                  ELSE files
        origin1 == IF w THEN [origin EXCEPT ![ClearName(cls)] = WrittenAs("clear")]
                   ELSE origin
        io1 == (IF mk THEN <<"makedirs">> ELSE <<>>)
               \o (IF w THEN <<"write clear">> ELSE <<>>)
        cipher == Cipher(cls)
    IN  IF w /\ OpenToWrite(files, ClearName(cls)) # Ok
        THEN [outcome |-> OpenToWrite(files, ClearName(cls)), result |-> <<>>,
              dirs |-> dirs1, files |-> files, origin |-> origin,
              io |-> IF mk THEN <<"makedirs">> ELSE <<>>]
        ELSE IF cipher.err # Ok
        THEN [outcome |-> cipher.err, result |-> <<>>, dirs |-> dirs1,
              files |-> files1, origin |-> origin1, io |-> io1]
        ELSE IF OpenToWrite(files1, EncodedName(cls)) # Ok
        THEN [outcome |-> OpenToWrite(files1, EncodedName(cls)), result |-> <<>>,
              dirs |-> dirs1, files |-> files1, origin |-> origin1, io |-> io1]
        ELSE [outcome |-> Ok,
              result |-> <<>>,
              dirs |-> dirs1,
              files |-> [files1 EXCEPT ![EncodedName(cls)] =
                            WriteFile(@, EncodedBlob(nonce,
                                                     encrypt(cipher.key, nonce,
                                                             Utf8Encode(data))))],
              origin |-> [origin1 EXCEPT ![EncodedName(cls)] =
                            SavedBy(config[cls], cassette_dict, serializer)],
              io |-> Append(io1, "write encoded")]

---------------------------------------------------------------------------
\* Actions.

Procs == {1, 2}
Idle == [pc |-> "idle"]
NoProcs == [p \in Procs |-> Idle]

Call(op, cls, cassette_dict, serializer, r) ==
    [op |-> op, cls |-> cls, cassette_dict |-> cassette_dict,
     serializer |-> serializer, outcome |-> r.outcome, result |-> r.result,
     io |-> r.io, nonce |-> <<>>]

NoCall(op) ==
    [op |-> op, cls |-> "", cassette_dict |-> <<>>, serializer |-> "",
     outcome |-> Ok, result |-> <<>>, io |-> <<>>, nonce |-> <<>>]

Init ==
    /\ config = PersisterClasses
    /\ cassette_path \in Paths
    /\ dirs = {}
    /\ files = [f \in FileNames |-> NoFile]
    /\ origin = [f \in FileNames |-> NoOrigin]
    /\ last = NoCall("init")
    /\ generated = NotGenerated
    /\ procs = NoProcs

\* variant: a load that fails clears the key of the class
Load_unsets_key(cls, serializer) ==
    LET r == load_cassette(cls, serializer)
    IN  /\ dirs' = r.dirs
        /\ files' = r.files
        /\ origin' = r.origin
        /\ last' = Call("load", cls, <<>>, serializer, r)
        /\ config' = [config EXCEPT ![cls].encryption_key =
                          IF r.outcome = Ok THEN @ ELSE None]
        /\ UNCHANGED <<cassette_path, generated, procs>>

\* variant: a load that cannot decode the encoded file removes it
Load_removes_undecodable(cls, serializer) ==
    LET r == load_cassette(cls, serializer)
    IN  /\ dirs' = r.dirs
        /\ files' = IF r.outcome \in {InvalidTag, NonceError, DeserializeError}
                    THEN [r.files EXCEPT ![EncodedName(cls)] = NoFile]
                    ELSE r.files
        /\ origin' = r.origin
        /\ last' = Call("load", cls, <<>>, serializer, r)
        /\ UNCHANGED <<config, cassette_path, generated, procs>>

Load(cls, serializer) ==
    LET r == load_cassette(cls, serializer)
    IN  /\ dirs' = r.dirs
        /\ files' = r.files
        /\ origin' = r.origin
        /\ last' = Call("load", cls, <<>>, serializer, r)
        /\ UNCHANGED <<config, cassette_path, generated, procs>>

Save(cls, cassette_dict, serializer, nonce) ==
    LET r == save_cassette(cls, cassette_dict, serializer, nonce)
    IN  /\ dirs' = r.dirs
        /\ files' = r.files
        /\ origin' = r.origin
        \* os.urandom(12) is called once the cipher is made
        /\ last' = [Call("save", cls, cassette_dict, serializer, r)
                        EXCEPT !.nonce = IF r.outcome = Ok THEN nonce ELSE <<>>]
        /\ UNCHANGED <<config, cassette_path, generated, procs>>

\* The environment shares the filesystem: it damages an encoded cassette,
\* or puts other content in its place.
EncodedFiles == {FileName(cassette_path, config[cls].encoded_suffix) : cls \in Classes}

\* positions worth damaging: the nonce, both ends of the ciphertext, both
\* ends of the tag
FlipPositions(content) ==
    {1, NonceLen + 1, Len(content) - TagLen, Len(content) - TagLen + 1, Len(content)}

GarbageText == <<116, 104, 105, 115, 32, 105, 115, 32, 110, 111, 116, 32, 97, 32,
                 118, 97, 108, 105, 100, 32, 99, 97, 115, 115, 101, 116, 116, 101>>

TruncateLens == {7, 20}

FlipByte(b) == (b + 128) % 256

EnvWrite(f, content, kind) ==
    /\ files' = [files EXCEPT ![f] = content]
    /\ origin' = [origin EXCEPT ![f] = WrittenAs(kind)]
    /\ dirs' = dirs \cup Ancestors(f.dir)
    /\ last' = NoCall(kind)
    /\ UNCHANGED <<config, cassette_path, generated, procs>>

FlipOneByte(f, pos) ==
    /\ origin[f].kind = "save"
    /\ EnvWrite(f, [files[f] EXCEPT ![pos] = FlipByte(files[f][pos])], "flipped")

Truncate(f, n) ==
    /\ origin[f].kind = "save"
    /\ n < Len(files[f])
    /\ EnvWrite(f, Take(files[f], n), "truncated")

WriteGarbage(f) ==
    /\ origin[f].kind # "garbage"
    /\ EnvWrite(f, GarbageText, "garbage")

WritePlaintext(f, cassette_dict, serializer) ==
    EnvWrite(f, Utf8Encode(serialize(cassette_dict, serializer)), "plaintext")

\* an encoded cassette made under a key with another serializer
WriteForeign(f, key, cassette_dict, nonce) ==
    /\ files' = [files EXCEPT ![f] =
                    EncodedBlob(nonce,
                                encrypt(key, nonce,
                                        Utf8Encode(serialize(cassette_dict,
                                                             ForeignSerializer))))]
    /\ origin' = [origin EXCEPT ![f] =
                     [kind |-> "foreign", key |-> key, cassette_dict |-> cassette_dict,
                      serializer |-> ForeignSerializer]]
    /\ dirs' = dirs \cup Ancestors(f.dir)
    /\ last' = NoCall("foreign")
    /\ UNCHANGED <<config, cassette_path, generated, procs>>

Next ==
    \/ \E cls \in Classes, serializer \in Serializers : Load(cls, serializer)
    \/ \E cls \in Classes, cassette_dict \in Records, serializer \in Serializers,
          nonce \in Nonces : Save(cls, cassette_dict, serializer, nonce)
    \/ \E f \in EncodedFiles : \E pos \in FlipPositions(files[f]) : FlipOneByte(f, pos)
    \/ \E f \in EncodedFiles, n \in TruncateLens : Truncate(f, n)
    \/ \E f \in EncodedFiles : WriteGarbage(f)
    \/ \E f \in EncodedFiles, cassette_dict \in Records, serializer \in Serializers :
          WritePlaintext(f, cassette_dict, serializer)
    \/ \E f \in EncodedFiles, key \in Keys, cassette_dict \in Records, nonce \in Nonces :
          WriteForeign(f, key, cassette_dict, nonce)

Spec == Init /\ [][Next]_vars

---------------------------------------------------------------------------
\* Persisters that share one key, with default and with custom suffixes;
\* only load_cassette and save_cassette touch the filesystem.

OneKeyClasses ==
    [cls \in {"MyPersister", "MyClearTextPersister", "CustomSuffixPersister"} |->
        IF cls = "CustomSuffixPersister"
        THEN [BaseEncryptedPersister EXCEPT !.encryption_key = Key16,
                                            !.clear_text_suffix = ".custom_clear",
                                            !.encoded_suffix = ".custom_enc",
                                            !.should_output_clear_text_as_well = TRUE]
        ELSE PersisterClasses[cls]]

CustomSuffixes == {".custom_clear", ".custom_enc"}

OneKeyFileNames == {FileName(p, s) : p \in Paths, s \in Suffixes \cup CustomSuffixes}

InitOneKey ==
    /\ config = OneKeyClasses
    /\ cassette_path \in Paths
    /\ dirs = {}
    /\ files = [f \in OneKeyFileNames |-> NoFile]
    /\ origin = [f \in OneKeyFileNames |-> NoOrigin]
    /\ last = NoCall("init")
    /\ generated = NotGenerated
    /\ procs = NoProcs

NextOneKey ==
    \/ \E cls \in DOMAIN config, serializer \in Serializers : Load(cls, serializer)
    \/ \E cls \in DOMAIN config, cassette_dict \in Records, serializer \in Serializers,
          nonce \in Nonces : Save(cls, cassette_dict, serializer, nonce)

SpecOneKey == InitOneKey /\ [][NextOneKey]_vars

---------------------------------------------------------------------------
\* A filesystem on which open fails for another reason than a missing
\* file: a directory sits at the name of a cassette file.

\* the environment runs mkdir on a file name nothing is at
MakeDirAt(f) ==
    /\ files[f] = NoFile
    /\ files' = [files EXCEPT ![f] = IsDir]
    /\ origin' = [origin EXCEPT ![f] = WrittenAs("directory")]
    /\ dirs' = dirs \cup Ancestors(f.dir)
    /\ last' = NoCall("mkdir")
    /\ UNCHANGED <<config, cassette_path, generated, procs>>

NextFs ==
    \/ \E cls \in Classes, serializer \in Serializers : Load(cls, serializer)
    \/ \E cls \in Classes, cassette_dict \in Records, serializer \in Serializers,
          nonce \in Nonces : Save(cls, cassette_dict, serializer, nonce)
    \/ \E suffix \in Suffixes : MakeDirAt(FileName(cassette_path, suffix))

SpecFs == Init /\ [][NextFs]_vars

---------------------------------------------------------------------------
\* One persister with a key, clear text output and two distinct suffixes
\* is the only user of a path that starts with neither file; a directory
\* may come to sit at one of its file names.

SingleClasses == {"MyClearTextPersister", "CustomSuffixPersister"}

InitSingle ==
    /\ \E cls \in SingleClasses : config = [c \in {cls} |-> OneKeyClasses[c]]
    /\ cassette_path \in Paths
    /\ dirs = {}
    /\ files = [f \in OneKeyFileNames |-> NoFile]
    /\ origin = [f \in OneKeyFileNames |-> NoOrigin]
    /\ last = NoCall("init")
    /\ generated = NotGenerated
    /\ procs = NoProcs

NextSingle ==
    \/ \E cls \in DOMAIN config, serializer \in Serializers : Load(cls, serializer)
    \/ \E cls \in DOMAIN config, cassette_dict \in Records, serializer \in Serializers,
          nonce \in Nonces : Save(cls, cassette_dict, serializer, nonce)
    \/ \E cls \in DOMAIN config :
          \E suffix \in {config[cls].clear_text_suffix, config[cls].encoded_suffix} :
             MakeDirAt(FileName(cassette_path, suffix))

SpecSingle == InitSingle /\ [][NextSingle]_vars

---------------------------------------------------------------------------
\* generate_key and a persister class whose key it made.

\* generate_key(*args): args is <<>> or <<bit_length>>
GenerateKey(args, s) ==
    LET bit_length == IF args = <<>> THEN DefaultBitLength ELSE args[1]
        r == generate_key(bit_length, s)
    IN  /\ generated' = [called |-> TRUE, args |-> args, err |-> r.err, key |-> r.key]
        /\ UNCHANGED <<config, cassette_path, dirs, files, origin, last, procs>>

\* class MyRandomKeyPersister(BaseEncryptedPersister): encryption_key = <the key>
DefineRandomKeyPersister ==
    /\ generated.called
    /\ generated.err = "none"
    /\ "MyRandomKeyPersister" \notin DOMAIN config
    /\ config' = config @@ ("MyRandomKeyPersister" :>
                      [BaseEncryptedPersister EXCEPT !.encryption_key = generated.key])
    /\ UNCHANGED <<cassette_path, dirs, files, origin, last, generated, procs>>

InitKey ==
    /\ config = [cls \in {"BaseEncryptedPersister"} |-> BaseEncryptedPersister]
    /\ cassette_path \in Paths
    /\ dirs = {}
    /\ files = [f \in FileNames |-> NoFile]
    /\ origin = [f \in FileNames |-> NoOrigin]
    /\ last = NoCall("init")
    /\ generated = NotGenerated
    /\ procs = NoProcs

NextKey ==
    \/ \E bit_length \in BitLengths, s \in Streams : GenerateKey(<<bit_length>>, s)
    \/ \E s \in Streams : GenerateKey(<<>>, s)
    \/ DefineRandomKeyPersister
    \/ \E cls \in DOMAIN config, serializer \in Serializers : Load(cls, serializer)
    \/ \E cls \in DOMAIN config, cassette_dict \in Records, serializer \in Serializers,
          nonce \in Nonces : Save(cls, cassette_dict, serializer, nonce)

SpecKey == InitKey /\ [][NextKey]_vars

---------------------------------------------------------------------------
\* save_cassette line by line: two callers, each saving once to a path of
\* its own in one directory, take turns between the lines.

RaceClasses == {"MyPersister", "MyClearTextPersister"}

\* the path caller p saves to
RacePath(p) == [dir |-> "d/e", base |-> IF p = 1 THEN "c" ELSE "c2"]

RaceFileNames == {FileName(RacePath(p), suffix) : p \in Procs, suffix \in Suffixes}

InitRace ==
    /\ config = PersisterClasses
    /\ cassette_path = RacePath(1)
    /\ dirs = {}
    /\ files = [f \in RaceFileNames |-> NoFile]
    /\ origin = [f \in RaceFileNames |-> NoOrigin]
    /\ last = NoCall("init")
    /\ generated = NotGenerated
    /\ procs = NoProcs

\* the call of caller p moves on to line pc
Goto(p, pc) == [procs EXCEPT ![p].pc = pc]

\* the call of caller p has done the file operation what and moves on to
\* line pc
Did(p, what, pc) == [procs EXCEPT ![p].pc = pc, ![p].io = Append(@, what)]

\* the call of caller p ends, by return or by raise
Return(p, outcome, result, io, nonce) ==
    /\ procs' = [procs EXCEPT ![p].pc = "done", ![p].outcome = outcome,
                              ![p].result = result, ![p].io = io]
    /\ last' = [op |-> procs[p].op, cls |-> procs[p].cls,
                cassette_dict |-> procs[p].cassette_dict,
                serializer |-> procs[p].serializer, outcome |-> outcome,
                result |-> result, io |-> io, nonce |-> nonce]

\* a call of save_cassette that has serialized its record
SaveCall(path, cls, cassette_dict, serializer) ==
    [pc |-> "exists", op |-> "save", cls |-> cls, cassette_path |-> path,
     cassette_dict |-> cassette_dict, serializer |-> serializer,
     data |-> serialize(cassette_dict, serializer), outcome |-> Ok,
     io |-> <<>>, nonce |-> <<>>, tagged_ciphertext |-> <<>>, result |-> <<>>]

\* line 65: data = serialize(cassette_dict, serializer)
SaveEnter(p, cls, cassette_dict, serializer) ==
    /\ procs[p].pc = "idle"
    /\ procs' = [procs EXCEPT ![p] =
                     SaveCall(RacePath(p), cls, cassette_dict, serializer)]
    /\ UNCHANGED <<config, cassette_path, dirs, files, origin, last, generated>>

\* lines 66-67: if dirname and not os.path.exists(dirname)
SaveCheckDir(p) ==
    /\ procs[p].pc = "exists"
    /\ procs' = IF procs[p].cassette_path.dir # "" /\ procs[p].cassette_path.dir \notin dirs
                THEN Goto(p, "makedirs")
                ELSE Goto(p, "clear")
    /\ UNCHANGED <<config, cassette_path, dirs, files, origin, last, generated>>

\* line 68: os.makedirs(dirname), which raises FileExistsError when the
\* directory is there
SaveMakeDirs(p) ==
    /\ procs[p].pc = "makedirs"
    /\ IF procs[p].cassette_path.dir \in dirs
       THEN /\ Return(p, FileExistsError, <<>>, procs[p].io, <<>>)
            /\ UNCHANGED dirs
       ELSE /\ dirs' = dirs \cup Ancestors(procs[p].cassette_path.dir)
            /\ procs' = Did(p, "makedirs", "clear")
            /\ UNCHANGED last
    /\ UNCHANGED <<config, cassette_path, files, origin, generated>>

\* lines 70-72: the clear text version
SaveClearText(p) ==
    LET clear == FileName(procs[p].cassette_path, config[procs[p].cls].clear_text_suffix)
    IN  /\ procs[p].pc = "clear"
        /\ IF SaveWritesClearText(procs[p].cls)
           THEN /\ files' = [files EXCEPT ![clear] = Utf8Encode(procs[p].data)]
                /\ origin' = [origin EXCEPT ![clear] = WrittenAs("clear")]
                /\ procs' = Did(p, "write clear", "encrypt")
           ELSE /\ UNCHANGED <<files, origin>>
                /\ procs' = Goto(p, "encrypt")
        /\ UNCHANGED <<config, cassette_path, dirs, last, generated>>

\* lines 74-82: the cipher, the nonce, the encoded file
SaveEncoded(p, nonce) ==
    LET encoded == FileName(procs[p].cassette_path, config[procs[p].cls].encoded_suffix)
        cipher == Cipher(procs[p].cls)
    IN  /\ procs[p].pc = "encrypt"
        /\ IF cipher.err # Ok
           THEN /\ Return(p, cipher.err, <<>>, procs[p].io, <<>>)
                /\ UNCHANGED <<files, origin>>
           ELSE /\ files' = [files EXCEPT ![encoded] =
                                WriteFile(@, EncodedBlob(nonce,
                                                         encrypt(cipher.key, nonce,
                                                                 Utf8Encode(procs[p].data))))]
                /\ origin' = [origin EXCEPT ![encoded] =
                                 SavedBy(config[procs[p].cls], procs[p].cassette_dict,
                                         procs[p].serializer)]
                /\ Return(p, Ok, <<>>, Append(procs[p].io, "write encoded"), nonce)
        /\ UNCHANGED <<config, cassette_path, dirs, generated>>

NextRace ==
    \/ \E p \in Procs, cls \in RaceClasses, cassette_dict \in Records,
          serializer \in Serializers : SaveEnter(p, cls, cassette_dict, serializer)
    \/ \E p \in Procs : SaveCheckDir(p)
    \/ \E p \in Procs : SaveMakeDirs(p)
    \/ \E p \in Procs : SaveClearText(p)
    \/ \E p \in Procs, nonce \in Nonces : SaveEncoded(p, nonce)

SpecRace == InitRace /\ [][NextRace]_vars

---------------------------------------------------------------------------
\* Calls on one path, line by line and write by write: callers 1 and 2
\* save, caller 3 loads, each once, all under one key.

Savers == Procs
Loaders == {3}
SaverClasses == {"MyPersister", "MyClearTextPersister"}
LoaderClasses == {"MyClearTextPersister"}

\* the files of the call of caller p
ProcEncoded(p) == FileName(procs[p].cassette_path, config[procs[p].cls].encoded_suffix)
ProcClear(p) == FileName(procs[p].cassette_path, config[procs[p].cls].clear_text_suffix)

\* f.write(bytes) at position offset of a file holding old; a gap the
\* write leaves reads as zero bytes
WriteAt(old, offset, bytes) ==
    LET padded == IF Len(old) < offset
                  THEN old \o [i \in 1..(offset - Len(old)) |-> 0]
                  ELSE old
    IN  Take(padded, offset) \o bytes \o Drop(padded, offset + Len(bytes))

\* a call of load_cassette about to open the encoded file
LoadCall(path, cls, serializer) ==
    [pc |-> "open", op |-> "load", cls |-> cls, cassette_path |-> path,
     cassette_dict |-> <<>>, serializer |-> serializer,
     data |-> <<>>, outcome |-> Ok,
     io |-> <<>>, nonce |-> <<>>, tagged_ciphertext |-> <<>>, result |-> <<>>]

InitConc ==
    /\ config = PersisterClasses
    /\ cassette_path \in Paths
    /\ dirs = {}
    /\ files = [f \in FileNames |-> NoFile]
    /\ origin = [f \in FileNames |-> NoOrigin]
    /\ last = NoCall("init")
    /\ generated = NotGenerated
    /\ procs = [p \in Savers \cup Loaders |-> Idle]

\* line 65, for a save to the shared path
SaveEnterShared(p, cls, cassette_dict, serializer) ==
    /\ procs[p].pc = "idle"
    /\ procs' = [procs EXCEPT ![p] =
                     SaveCall(cassette_path, cls, cassette_dict, serializer)]
    /\ UNCHANGED <<config, cassette_path, dirs, files, origin, last, generated>>

\* lines 74-81: the cipher, the nonce, the ciphertext; open(..., "wb")
\* creates the encoded file or empties it
SaveOpenEncoded(p, nonce) ==
    LET cipher == Cipher(procs[p].cls)
    IN  /\ procs[p].pc = "encrypt"
        /\ IF cipher.err # Ok
           THEN /\ Return(p, cipher.err, <<>>, procs[p].io, <<>>)
                /\ UNCHANGED <<files, origin>>
           ELSE /\ files' = [files EXCEPT ![ProcEncoded(p)] = <<>>]
                /\ origin' = [origin EXCEPT ![ProcEncoded(p)] = WrittenAs("partial")]
                /\ procs' = [procs EXCEPT
                                ![p].pc = "write nonce",
                                ![p].io = Append(@, "write encoded"),
                                ![p].nonce = nonce,
                                ![p].tagged_ciphertext =
                                    encrypt(cipher.key, nonce, Utf8Encode(procs[p].data))]
                /\ UNCHANGED last
        /\ UNCHANGED <<config, cassette_path, dirs, generated>>

\* line 82: f.write(nonce)
SaveWriteNonce(p) ==
    /\ procs[p].pc = "write nonce"
    /\ files' = [files EXCEPT ![ProcEncoded(p)] = WriteAt(@, 0, procs[p].nonce)]
    /\ procs' = Goto(p, "write tagged")
    /\ UNCHANGED <<config, cassette_path, dirs, origin, last, generated>>

\* line 82: f.write(tagged_ciphertext), and the return
SaveWriteTagged(p) ==
    LET content == WriteAt(files[ProcEncoded(p)], NonceLen, procs[p].tagged_ciphertext)
    IN  /\ procs[p].pc = "write tagged"
        /\ files' = [files EXCEPT ![ProcEncoded(p)] = content]
        /\ origin' = [origin EXCEPT ![ProcEncoded(p)] =
                         IF content = EncodedBlob(procs[p].nonce, procs[p].tagged_ciphertext)
                         THEN SavedBy(config[procs[p].cls], procs[p].cassette_dict,
                                      procs[p].serializer)
                         ELSE WrittenAs("partial")]
        /\ Return(p, Ok, <<>>, procs[p].io, procs[p].nonce)
        /\ UNCHANGED <<config, cassette_path, dirs, generated>>

\* line 44: load_cassette is called
LoadEnter(p, cls, serializer) ==
    /\ procs[p].pc = "idle"
    /\ procs' = [procs EXCEPT ![p] = LoadCall(cassette_path, cls, serializer)]
    /\ UNCHANGED <<config, cassette_path, dirs, files, origin, last, generated>>

\* variant: a load that does not find the encoded file tries again
LoadOpen_retries(p) ==
    /\ procs[p].pc = "open"
    /\ IF OpenToRead(ProcEncoded(p)) # Ok
       THEN /\ procs' = procs
            /\ UNCHANGED last
       ELSE /\ procs' = Did(p, "read encoded", "read nonce")
            /\ UNCHANGED last
    /\ UNCHANGED <<config, cassette_path, dirs, files, origin, generated>>

\* lines 45-49: open(..., "rb"), or ValueError("Cassette not found.")
LoadOpen(p) ==
    /\ procs[p].pc = "open"
    /\ IF OpenToRead(ProcEncoded(p)) # Ok
       THEN Return(p, NotFound, <<>>, procs[p].io, <<>>)
       ELSE /\ procs' = Did(p, "read encoded", "read nonce")
            /\ UNCHANGED last
    /\ UNCHANGED <<config, cassette_path, dirs, files, origin, generated>>

\* line 47: nonce = f.read(12)
LoadReadNonce(p) ==
    /\ procs[p].pc = "read nonce"
    /\ procs' = [procs EXCEPT ![p].pc = "read rest",
                              ![p].nonce = Take(files[ProcEncoded(p)], NonceLen)]
    /\ UNCHANGED <<config, cassette_path, dirs, files, origin, last, generated>>

\* lines 47-53: tagged_ciphertext = f.read(-1), the cipher, decrypt
LoadReadRest(p) ==
    LET tagged_ciphertext == Drop(files[ProcEncoded(p)], NonceLen)
        d == DecryptCassette(procs[p].cls, procs[p].nonce, tagged_ciphertext)
    IN  /\ procs[p].pc = "read rest"
        /\ IF d.err # Ok
           THEN Return(p, d.err, <<>>, procs[p].io, <<>>)
           ELSE /\ procs' = [procs EXCEPT ![p].pc = "clear",
                                          ![p].tagged_ciphertext = tagged_ciphertext,
                                          ![p].data = d.plain]
                /\ UNCHANGED last
        /\ UNCHANGED <<config, cassette_path, dirs, files, origin, generated>>

\* lines 55-61: the clear text version if asked for and missing, then
\* deserialize and return
LoadFinish(p) ==
    LET w == /\ config[procs[p].cls].should_output_clear_text_as_well
             /\ ~isfile(files, ProcClear(p))
        r == DeserializeCassette(procs[p].data, procs[p].serializer)
    IN  /\ procs[p].pc = "clear"
        /\ IF w
           THEN /\ files' = [files EXCEPT ![ProcClear(p)] = procs[p].data]
                /\ origin' = [origin EXCEPT ![ProcClear(p)] = WrittenAs("clear")]
           ELSE UNCHANGED <<files, origin>>
        /\ Return(p, r.outcome, r.result,
                  IF w THEN Append(procs[p].io, "write clear") ELSE procs[p].io, <<>>)
        /\ UNCHANGED <<config, cassette_path, dirs, generated>>

\* the lines of the call of caller p that follow its entry
SaveStep(p) ==
    \/ SaveCheckDir(p)
    \/ SaveMakeDirs(p)
    \/ SaveClearText(p)
    \/ \E nonce \in Nonces : SaveOpenEncoded(p, nonce)
    \/ SaveWriteNonce(p)
    \/ SaveWriteTagged(p)

LoadStep(p) ==
    \/ LoadOpen(p)
    \/ LoadReadNonce(p)
    \/ LoadReadRest(p)
    \/ LoadFinish(p)

NextConc ==
    \/ \E p \in Savers, cls \in SaverClasses, cassette_dict \in Records,
          serializer \in Serializers : SaveEnterShared(p, cls, cassette_dict, serializer)
    \/ \E p \in Loaders, cls \in LoaderClasses, serializer \in Serializers :
          LoadEnter(p, cls, serializer)
    \/ \E p \in Savers : SaveStep(p)
    \/ \E p \in Loaders : LoadStep(p)

SpecConc == InitConc /\ [][NextConc]_vars

\* one save and one load on the path, each call given its turn once it
\* has been entered
NextPair ==
    \/ \E cls \in SaverClasses, cassette_dict \in Records, serializer \in Serializers :
          SaveEnterShared(1, cls, cassette_dict, serializer)
    \/ \E cls \in LoaderClasses, serializer \in Serializers :
          LoadEnter(3, cls, serializer)
    \/ SaveStep(1)
    \/ LoadStep(3)

SpecPairFair ==
    /\ InitConc
    /\ [][NextPair]_vars
    /\ WF_vars(SaveStep(1))
    /\ WF_vars(LoadStep(3))

TypeOK ==
    /\ config = PersisterClasses
    /\ cassette_path \in Paths
    /\ dirs \subseteq {"d", "d/e"}
    /\ DOMAIN files = FileNames
    /\ last.op \in {"init", "load", "save", "flipped", "truncated", "garbage", "plaintext",
                   "foreign"}

---------------------------------------------------------------------------
\* Properties.

IsCall == last.op \in {"load", "save"}
Cfg == config[last.cls]
Unconfigured == Cfg.encryption_key = None
EncodedOrigin == origin[EncodedName(last.cls)]
\* the bytes a save of the record behind the encoded file encrypted
SavedPlaintext == Utf8Encode(serialize(EncodedOrigin.cassette_dict, EncodedOrigin.serializer))
\* the encoded file is as a save under the caller's key left it
SavedUnderSameKey ==
    /\ EncodedOrigin.kind = "save"
    /\ EncodedOrigin.key = Cfg.encryption_key
\* the encoded file is a plaintext encrypted under the caller's key
EncryptedUnderSameKey ==
    /\ EncodedOrigin.kind \in {"save", "foreign"}
    /\ EncodedOrigin.key = Cfg.encryption_key
\* the failures of load that mean "the encoded file cannot be decoded"
DecodeError == {InvalidTag, NonceError, DeserializeError}

\* C1: a load of an encoded file left by a successful save under the same
\* key, encoded suffix and serializer succeeds and returns the saved record.
C1_RoundTrip ==
    (last.op = "load" /\ SavedUnderSameKey
        /\ EncodedOrigin.serializer = last.serializer)
    => (last.outcome = Ok /\ last.result = EncodedOrigin.cassette_dict)

C1_Witness ==
    /\ last.op = "load"
    /\ SavedUnderSameKey
    /\ EncodedOrigin.serializer = last.serializer
    /\ last.outcome = Ok
    /\ last.result = <<2, 1>>

C3_NoFileIO ==
    [][(last'.op \in {"load", "save"} /\ config[last'.cls].encryption_key = None)
       => (files' = files /\ dirs' = dirs)]_vars

C5_TamperDetected ==
    (last.op = "load" /\ ~Unconfigured
        /\ \/ EncodedOrigin.kind = "flipped"
           \/ /\ EncodedOrigin.kind \in {"save", "foreign"}
              /\ EncodedOrigin.key # Cfg.encryption_key)
    => (last.outcome = InvalidTag /\ last.result = <<>>
        /\ last.io = <<"read encoded">>)

C5_Witness ==
    /\ last.op = "load"
    /\ ~Unconfigured
    /\ EncodedOrigin.kind = "flipped"
    /\ last.outcome = InvalidTag

\* C6: a load of an existing encoded file that is not nonce, ciphertext and
\* tag (arbitrary text, a plaintext cassette, a truncated file) fails with
\* a decode error, for every persister, the base persister included.
C6_GarbageIsDecodeError ==
    (last.op = "load" /\ EncodedOrigin.kind \in {"garbage", "plaintext", "truncated"})
    => (last.outcome \in DecodeError /\ last.result = <<>>)

\* C7: when the encoded file decrypts but the plaintext is not a cassette
\* of the serializer in use, load fails at deserialization and returns no
\* record.
C7_MalformedPlaintext ==
    (last.op = "load" /\ EncryptedUnderSameKey
        /\ ~deserialize(SavedPlaintext, last.serializer).ok)
    => (last.outcome = DeserializeError /\ last.result = <<>>)

C7_Witness ==
    /\ last.op = "load"
    /\ EncryptedUnderSameKey
    /\ EncodedOrigin.serializer # last.serializer
    /\ last.outcome = DeserializeError

\* C8 as stated: a call of a persister that does not output clear text
\* never creates the file at its clear text name.
C8_NoClearTextCreated ==
    [][(last'.op \in {"load", "save"}
        /\ ~config[last'.cls].should_output_clear_text_as_well
        /\ ~isfile(files, ClearName(last'.cls)))
       => ~isfile(files', ClearName(last'.cls))]_vars

\* C8 amended: a call of a persister that does not output clear text and
\* whose two suffixes differ never creates the file at its clear text name.
C8_NoClearTextCreatedDistinct ==
    [][(last'.op \in {"load", "save"}
        /\ ~config[last'.cls].should_output_clear_text_as_well
        /\ config[last'.cls].clear_text_suffix # config[last'.cls].encoded_suffix
        /\ ~isfile(files, ClearName(last'.cls)))
       => ~isfile(files', ClearName(last'.cls))]_vars

C8_Witness ==
    /\ last.op = "save"
    /\ last.outcome = Ok
    /\ ~Cfg.should_output_clear_text_as_well
    /\ Cfg.clear_text_suffix # Cfg.encoded_suffix
    /\ ~isfile(files, ClearName(last.cls))
    /\ isfile(files, EncodedName(last.cls))

\* C9 as stated: after a successful save of a persister that outputs clear
\* text the clear text file holds the serialized text of the record saved,
\* and the parent directory exists.
C9_ClearTextRewritten ==
    (last.op = "save" /\ last.outcome = Ok /\ Cfg.should_output_clear_text_as_well)
    => /\ files[ClearName(last.cls)]
            = Utf8Encode(serialize(last.cassette_dict, last.serializer))
       /\ cassette_path.dir \in dirs \cup {""}

\* C9 amended: the same, for a persister whose two suffixes differ.
C9_ClearTextRewrittenDistinct ==
    (last.op = "save" /\ last.outcome = Ok /\ Cfg.should_output_clear_text_as_well
        /\ Cfg.clear_text_suffix # Cfg.encoded_suffix)
    => /\ files[ClearName(last.cls)]
            = Utf8Encode(serialize(last.cassette_dict, last.serializer))
       /\ cassette_path.dir \in dirs \cup {""}

C9_Witness ==
    /\ last.op = "save"
    /\ last.outcome = Ok
    /\ last.cls = "MyClearTextPersister"
    /\ last.io = <<"makedirs", "write clear", "write encoded">>
    /\ files[ClearName(last.cls)] = Utf8Encode(serialize(<<2, 1>>, last.serializer))

\* C10: a load by a persister that outputs clear text, of an encoded file
\* saved under its key while no clear text file exists, creates the clear
\* text file with exactly the decrypted plaintext.
C10_ClearTextRecovered ==
    [][(/\ last'.op = "load"
        /\ config[last'.cls].should_output_clear_text_as_well
        /\ ~isfile(files, ClearName(last'.cls))
        /\ origin[EncodedName(last'.cls)].kind \in {"save", "foreign"}
        /\ origin[EncodedName(last'.cls)].key = config[last'.cls].encryption_key)
       => files'[ClearName(last'.cls)]
            = Utf8Encode(serialize(origin[EncodedName(last'.cls)].cassette_dict,
                                   origin[EncodedName(last'.cls)].serializer))]_vars

C10_Witness ==
    /\ last.op = "load"
    /\ last.outcome = Ok
    /\ last.cls = "MyClearTextPersister"
    /\ last.io = <<"read encoded", "write clear">>
    /\ files[ClearName(last.cls)] = SavedPlaintext

\* C11: a load never overwrites a clear text file that exists: the file at
\* the clear text name holds after the load the bytes it held before, also
\* when they differ from the plaintext the load decrypted.
C11_ClearTextKept ==
    [][(last'.op = "load" /\ isfile(files, ClearName(last'.cls)))
       => files'[ClearName(last'.cls)] = files[ClearName(last'.cls)]]_vars

C11_Witness ==
    /\ last.op = "load"
    /\ last.outcome = Ok
    /\ Cfg.should_output_clear_text_as_well
    /\ Cfg.clear_text_suffix # Cfg.encoded_suffix
    /\ last.io = <<"read encoded">>
    /\ isfile(files, ClearName(last.cls))
    /\ files[ClearName(last.cls)] # SavedPlaintext

\* C12: custom suffixes change only the file names.  A successful save
\* changes no file but the one at the path plus encoded_suffix and, when
\* clear text is output, the one at the path plus clear_text_suffix, and
\* the bytes it writes there are the bytes a persister with the default
\* suffixes and the same key writes for the same record and nonce; a load
\* reads the file at the path plus encoded_suffix and no other.
C12_SuffixesOnlyRename ==
    [][LET c == config[last'.cls]
           enc == FileName(cassette_path, c.encoded_suffix)
           clr == FileName(cassette_path, c.clear_text_suffix)
           default == save_cassette("MyClearTextPersister", last'.cassette_dict,
                                    last'.serializer, last'.nonce).files
       IN  /\ (last'.op = "save" /\ last'.outcome = Ok)
              => /\ \A f \in DOMAIN files :
                       files'[f] # files[f]
                       => (f = enc \/ (c.should_output_clear_text_as_well /\ f = clr))
                 /\ files'[enc]
                      = default[FileName(cassette_path,
                                         BaseEncryptedPersister.encoded_suffix)]
                 /\ c.should_output_clear_text_as_well
                      => files'[clr]
                           = default[FileName(cassette_path,
                                              BaseEncryptedPersister.clear_text_suffix)]
           /\ last'.op = "load"
              => IF isfile(files, enc)
                 THEN last'.outcome = Ok /\ last'.result = origin[enc].cassette_dict
                 ELSE last'.outcome = NotFound]_vars

C12_Witness ==
    /\ last.op = "load"
    /\ last.cls = "CustomSuffixPersister"
    /\ last.outcome = Ok
    /\ last.result = <<2, 1>>
    /\ ~isfile(files, FileName(cassette_path, ".enc"))
    /\ files[FileName(cassette_path, ".custom_clear")]
         = Utf8Encode(serialize(<<2, 1>>, last.serializer))

\* the bit length a call of generate_key works with
GeneratedBitLength ==
    IF generated.args = <<>> THEN 128 ELSE generated.args[1]

\* C13: generate_key returns exactly bit_length / 8 bytes (16, 24 or 32)
\* for a bit length of 128, 192 or 256, with 128 as the default, and for
\* every other bit length fails with the invalid-parameter ValueError and
\* returns no key.
C13_KeyLength ==
    generated.called
    => IF GeneratedBitLength \in {128, 192, 256}
       THEN /\ generated.err = "none"
            /\ Len(generated.key) * 8 = GeneratedBitLength
            /\ Len(generated.key) \in {16, 24, 32}
       ELSE /\ generated.err = InvalidBitLength
            /\ generated.key = None

C13_Witness ==
    /\ generated.called
    /\ generated.args = <<>>
    /\ generated.err = "none"
    /\ Len(generated.key) = 16

\* C14: every key generate_key returns is a valid encryption key: each
\* byte is a printable ASCII character (one byte per character drawn, so
\* the key is 16, 24 or 32 bytes long), and a persister whose key it is
\* saves, and loads back the record it saved.
C14_ValidKey ==
    /\ (generated.called /\ generated.err = "none")
       => /\ \A i \in DOMAIN generated.key : generated.key[i] \in 33..126
          /\ Len(generated.key) * 8 = GeneratedBitLength
          /\ ValidKeyLen(generated.key)
    /\ (IsCall /\ last.cls = "MyRandomKeyPersister")
       => IF last.op = "save" THEN last.outcome = Ok
          ELSE isfile(files, EncodedName(last.cls))
               => /\ last.outcome = Ok
                  /\ EncodedOrigin.kind = "save"
                  /\ last.result = EncodedOrigin.cassette_dict

C14_Witness ==
    /\ last.op = "load"
    /\ last.cls = "MyRandomKeyPersister"
    /\ Cfg.encryption_key \in GeneratedKeys
    /\ Len(Cfg.encryption_key) = 32
    /\ last.outcome = Ok
    /\ last.result = <<2, 1>>

\* C15: after a successful save the encoded file is the 12 bytes of the
\* nonce drawn, then the ciphertext, then the 16 bytes of the tag: its
\* length is 12 plus the number of UTF-8 bytes of the serialized text plus
\* 16, at least 28, and its first 12 bytes and the rest decrypt to that
\* text.  A load of a file a save left takes the first 12 bytes of the
\* file as the nonce and the rest as ciphertext and tag.
C15_EncodedLayout ==
    LET blob == files[EncodedName(last.cls)]
        opened == decrypt(Cfg.encryption_key, Take(blob, NonceLen), Drop(blob, NonceLen))
    IN  /\ (last.op = "save" /\ last.outcome = Ok)
           => LET plain == Utf8Encode(serialize(last.cassette_dict, last.serializer))
              IN  /\ Len(blob) = 12 + Len(plain) + 16
                  /\ Len(blob) >= 28
                  /\ Take(blob, 12) = last.nonce
                  /\ opened = [err |-> "none", plain |-> plain]
        /\ (last.op = "load" /\ SavedUnderSameKey)
           => /\ opened.err = "none"
              /\ last.outcome = Ok
              /\ last.result = deserialize(opened.plain, last.serializer).cassette

C15_Witness ==
    /\ last.op = "load"
    /\ SavedUnderSameKey
    /\ Take(files[EncodedName(last.cls)], 12) = [i \in 1..12 |-> 2]
    /\ Len(files[EncodedName(last.cls)]) = 12 + 5 + 16
    /\ Len(serialize(EncodedOrigin.cassette_dict, EncodedOrigin.serializer)) = 4
    /\ last.outcome = Ok

C17_FilesystemErrorsPropagate ==
    /\ (last.op = "load" /\ files[EncodedName(last.cls)] = IsDir)
       => last.outcome = IsADirectoryError
    /\ (last.op = "load" /\ SavedUnderSameKey
          /\ Cfg.should_output_clear_text_as_well
          /\ files[ClearName(last.cls)] = IsDir)
       => last.outcome = IsADirectoryError
    /\ (last.op = "save" /\ Cfg.should_output_clear_text_as_well
          /\ files[ClearName(last.cls)] = IsDir)
       => last.outcome = IsADirectoryError
    /\ (last.op = "save" /\ ~Cfg.should_output_clear_text_as_well
          /\ ~Unconfigured /\ files[EncodedName(last.cls)] = IsDir)
       => last.outcome = IsADirectoryError

\* C18: every save rewrites the encoded file in full.  After a successful
\* save, whatever was saved to the path before, the encoded file is as long
\* as the nonce, the bytes of the record just saved and the tag, with no
\* byte of an earlier cassette after them, and a load by the same
\* persister returns the record just saved.
C18_RewrittenInFull ==
    (last.op = "save" /\ last.outcome = Ok)
    => LET reloaded == load_cassette(last.cls, last.serializer)
       IN  /\ Len(files[EncodedName(last.cls)])
                = NonceLen
                  + Len(Utf8Encode(serialize(last.cassette_dict, last.serializer)))
                  + TagLen
           /\ reloaded.outcome = Ok
           /\ reloaded.result = last.cassette_dict

\* a save of the short record by MyPersister over the long record, of
\* which the clear text file MyClearTextPersister left is the trace
C18_Witness ==
    /\ last.op = "save"
    /\ last.outcome = Ok
    /\ last.cls = "MyPersister"
    /\ last.cassette_dict = <<1>>
    /\ files[ClearName(last.cls)] = Utf8Encode(serialize(<<2, 1>>, last.serializer))
    /\ origin[EncodedName(last.cls)].cassette_dict = <<1>>
    /\ Len(files[EncodedName(last.cls)]) = 31

\* C19: the creation of the parent directory is idempotent: a save by a
\* persister with a key succeeds whether the directory is missing or there,
\* also when a save to another path in the directory creates it between
\* this save's test for the directory and its call of os.makedirs.
C19_SaveSucceedsDespiteRace ==
    \A p \in Procs :
        (procs[p].pc = "done" /\ config[procs[p].cls].encryption_key # None)
        => procs[p].outcome = Ok

\* C20: the configuration is never changed by a call: every load and
\* every save, failed or not, leaves encryption_key,
\* should_output_clear_text_as_well, clear_text_suffix and encoded_suffix
\* of every class as they were, so a class with a key keeps it.
C20_ConfigurationKept ==
    [][last'.op \in {"load", "save"}
       => /\ config' = config
          /\ \A cls \in DOMAIN config :
                config[cls].encryption_key # None
                => config'[cls].encryption_key = config[cls].encryption_key]_vars

C20_Witness ==
    /\ last.op = "load"
    /\ last.outcome = InvalidTag
    /\ ~Unconfigured
    /\ Cfg = PersisterClasses[last.cls]
    /\ config = PersisterClasses

\* the file operations of one save: at most one directory creation, then
\* at most the clear text write and the encoded write, in this order
SaveOperations ==
    {<<>>, <<"makedirs">>, <<"write clear">>, <<"write encoded">>,
     <<"makedirs", "write clear">>, <<"makedirs", "write encoded">>,
     <<"write clear", "write encoded">>,
     <<"makedirs", "write clear", "write encoded">>}

\* the file operations of one load: at most one read, then one write
LoadOperations == {<<>>, <<"read encoded">>, <<"read encoded", "write clear">>}

\* C21: every call ends, by return or by raise, and no line is taken
\* twice: at any moment a save has done at most one directory creation
\* and two file writes, a load at most one file read and one file write,
\* and every call that was entered reaches its end.
C21_BoundedCalls ==
    /\ [](\A p \in DOMAIN procs :
            procs[p].pc # "idle"
            => IF procs[p].op = "save" THEN procs[p].io \in SaveOperations
               ELSE procs[p].io \in LoadOperations)
    /\ \A p \in Savers \cup Loaders :
          (procs[p].pc # "idle") ~> (procs[p].pc = "done")

C21_Witness ==
    /\ procs[1].pc = "done"
    /\ procs[1].outcome = Ok
    /\ procs[1].io = <<"makedirs", "write encoded">>
    /\ procs[3].pc = "done"
    /\ procs[3].outcome = Ok
    /\ procs[3].io = <<"read encoded", "write clear">>

\* C22: no call deletes a file: a file that exists before a load or a
\* save exists after it, and a load leaves the encoded file byte for byte
\* as it found it.
C22_NothingDeleted ==
    [][last'.op \in {"load", "save"}
       => /\ \A f \in DOMAIN files : isfile(files, f) => isfile(files', f)
          /\ last'.op = "load"
             => files'[FileName(cassette_path, config[last'.cls].encoded_suffix)]
                  = files[FileName(cassette_path, config[last'.cls].encoded_suffix)]]_vars

C22_Witness ==
    /\ last.op = "load"
    /\ last.outcome = InvalidTag
    /\ EncodedOrigin.kind = "save"
    /\ EncodedOrigin.key # Cfg.encryption_key
    /\ isfile(files, EncodedName(last.cls))
    /\ isfile(files, ClearName(last.cls))

\* the clear text file of the class holds the plaintext its encoded file
\* decrypts to under its key
Mirrored(cls) ==
    LET blob == files[EncodedName(cls)]
        opened == decrypt(config[cls].encryption_key,
                          Take(blob, NonceLen), Drop(blob, NonceLen))
    IN  /\ isfile(files, EncodedName(cls))
        /\ isfile(files, ClearName(cls))
        /\ opened.err = "none"
        /\ files[ClearName(cls)] = opened.plain

\* C23: for one persister with a key, clear text output and distinct
\* suffixes on a path that started with neither file: after every
\* successful call the clear text file holds exactly the plaintext the
\* encoded file decrypts to, and at any moment either both files are
\* absent, or the one mirrors the other, or a save has failed between its
\* two writes (here: a directory sits at a file name).
C23_ClearTextMirrorsEncoded ==
    \A cls \in DOMAIN config :
        /\ (IsCall /\ last.outcome = Ok) => Mirrored(cls)
        /\ \/ Mirrored(cls)
           \/ files[EncodedName(cls)] = NoFile /\ files[ClearName(cls)] = NoFile
           \/ files[EncodedName(cls)] = IsDir
           \/ files[ClearName(cls)] = IsDir

C23_Witness ==
    /\ last.op = "load"
    /\ last.outcome = Ok
    /\ last.result = <<2, 1>>
    /\ Mirrored(last.cls)
    /\ files[ClearName(last.cls)] = Utf8Encode(serialize(<<2, 1>>, last.serializer))
    /\ Take(files[EncodedName(last.cls)], NonceLen) = [i \in 1..NonceLen |-> 2]

\* the load fails before or at decryption: no cassette, no key, a nonce of
\* no length, or the authentication of the content
FailsBeforePlaintext(outcome) ==
    outcome \in {NotFound, NotConfigured, NonceError, InvalidTag}

\* the plaintext a class gets out of a stored blob
PlaintextOf(cls, blob) ==
    decrypt(config[cls].encryption_key, Take(blob, NonceLen), Drop(blob, NonceLen)).plain

\* C24: a load writes the clear text file only after decryption succeeded
\* and before deserialization: a load that fails with not found, not
\* configured or an authentication failure leaves every file and directory
\* unchanged, files change in a load only when the plaintext was obtained,
\* and a load that fails at deserialization for a class with clear text
\* output and no clear text file has created that file with the decrypted
\* plaintext.
C24_ClearTextBetweenDecryptAndDeserialize ==
    [][(last' # last /\ last'.op = "load") =>
         LET cls == last'.cls
             clear == FileName(cassette_path, config[cls].clear_text_suffix)
             enc == FileName(cassette_path, config[cls].encoded_suffix)
         IN  /\ FailsBeforePlaintext(last'.outcome) => (files' = files /\ dirs' = dirs)
             /\ files' # files => last'.outcome \in {Ok, DeserializeError}
             /\ ( /\ last'.outcome = DeserializeError
                  /\ config[cls].should_output_clear_text_as_well
                  /\ ~isfile(files, clear) )
                => /\ isfile(files', clear)
                   /\ files'[clear] = PlaintextOf(cls, files[enc])
                   /\ \A f \in DOMAIN files \ {clear} : files'[f] = files[f]]_vars

C24_Witness ==
    /\ last.op = "load"
    /\ last.outcome = DeserializeError
    /\ last.io = <<"read encoded", "write clear">>
    /\ config[last.cls].should_output_clear_text_as_well
    /\ isfile(files, ClearName(last.cls))
    /\ files[ClearName(last.cls)] = PlaintextOf(last.cls, files[EncodedName(last.cls)])

\* the records given to the saves that have been entered, finished or not
RecordsGiven ==
    {procs[q].cassette_dict : q \in {q \in Savers : procs[q].pc # "idle"}}

\* C25: a load that runs beside saves to the same path under the same key
\* either returns a record that a finished or running save was given, or
\* fails and returns nothing; the plaintext it holds after decryption is
\* the serialization of such a record, whatever part of the encoded file
\* the saves had written when it read.
C25_LoadReturnsSavedRecordOrFails ==
    \A p \in Loaders :
        /\ (procs[p].pc = "done" /\ procs[p].outcome = Ok)
              => procs[p].result \in RecordsGiven
        /\ (procs[p].pc = "done" /\ procs[p].outcome # Ok)
              => procs[p].result = <<>>
        /\ procs[p].pc = "clear"
              => \E r \in RecordsGiven, serializer \in Serializers :
                    procs[p].data = Utf8Encode(serialize(r, serializer))

C25_Witness ==
    \E p \in Loaders, q \in Savers :
        /\ procs[p].pc = "done"
        /\ procs[p].outcome = Ok
        /\ procs[p].result = <<2, 1>>
        /\ procs[q].pc \in {"write nonce", "write tagged"}
        /\ procs[q].cassette_dict = <<1>>
        /\ origin[ProcEncoded(p)].kind = "partial"

====
